---- MODULE Spec2Model ----
(***************************************************************************)
(* Task-tracking backend: the classifier (classifyTask) and the request    *)
(* handlers of the two Express servers of the repository, the one with     *)
(* history and overrides and the one of src/index.ts, both working on the  *)
(* same Supabase tables `tasks` and `task_history`.                        *)
(*                                                                         *)
(* Text is a sequence of one-character strings, so that lower-casing,      *)
(* concatenation and regular-expression search are computed as the code    *)
(* computes them.  Enumerated values (category, priority, status, action)  *)
(* and action labels are TLA+ strings, as they are string literals in the  *)
(* code.                                                                   *)
(*                                                                         *)
(* A handler is a sequence of steps, one per store call: a step is the     *)
(* store call together with the code that runs on its result up to the     *)
(* next store call or the response.  Steps of different requests           *)
(* interleave.                                                             *)
(*                                                                         *)
(* The store: an insert into `tasks` and an update of `tasks` are accepted *)
(* or rejected (the error of the result is set); an update that matches no *)
(* row is not an error, it returns no rows; .single() on no row gives null *)
(* data; the results of the inserts into `task_history` and of the delete  *)
(* are not read by the code, and these calls are taken to succeed.  The    *)
(* select of GET /api/tasks is accepted or rejected; the two selects of    *)
(* GET /api/tasks/:id are taken to succeed, their errors are not read.  A  *)
(* select without .order() returns its rows in any order.  created_at and  *)
(* changed_at come from one store clock and are distinct.                  *)
(***************************************************************************)
EXTENDS Integers, Sequences, FiniteSets, TLC

\* ------------------------------------------------------------------------
\* JavaScript values
\* ------------------------------------------------------------------------

\* `undefined` (a key missing from a request body) and `null` in a scalar field
undefined == "<undefined>"
null == "<null>"

\* `null` where an object (a task row) is expected
nullRow == [isNull |-> TRUE]

\* the operand of `||` and `?:` is falsy
Falsy(v) == v \in {undefined, null, ""}

\* a || b
Or(a, b) == IF Falsy(a) THEN b ELSE a

\* ------------------------------------------------------------------------
\* Characters and strings
\* ------------------------------------------------------------------------

UpperAZ == <<"A", "B", "C", "D", "E", "F", "G", "H", "I", "J", "K", "L", "M", "N", "O", "P", "Q", "R", "S", "T", "U", "V", "W", "X", "Y", "Z">>

LowerAZ == <<"a", "b", "c", "d", "e", "f", "g", "h", "i", "j", "k", "l", "m", "n", "o", "p", "q", "r", "s", "t", "u", "v", "w", "x", "y", "z">>

Range(f) == {f[i] : i \in DOMAIN f}

\* [A-Z], [a-z], \d and \s
IsUpper(c) == c \in Range(UpperAZ)

IsLower(c) == c \in Range(LowerAZ)

IsDigit(c) == c \in {"0", "1", "2", "3", "4", "5", "6", "7", "8", "9"}

IsSpace(c) == c \in {" ", "\t", "\n"}

ToLowerChar(c) == IF IsUpper(c) THEN LowerAZ[CHOOSE i \in DOMAIN UpperAZ : UpperAZ[i] = c] ELSE c

\* String.prototype.toLowerCase
toLowerCase(s) == [i \in 1..Len(s) |-> ToLowerChar(s[i])]

\* the literal w occurs in s at position i
OccursAt(w, s, i) == i >= 1 /\ i + Len(w) - 1 <= Len(s) /\ SubSeq(s, i, i + Len(w) - 1) = w

\* /a|b|c/.test(s) for an alternation of literals
RegexTest(alts, s) == \E k \in DOMAIN alts : \E i \in 1..Len(s) : OccursAt(alts[k], s, i)

\* ------------------------------------------------------------------------
\* Classification (classifyTask)
\* ------------------------------------------------------------------------

SchedulingRe == << <<"m", "e", "e", "t", "i", "n", "g">>, <<"s", "c", "h", "e", "d", "u", "l", "e">>, <<"c", "a", "l", "l">>, <<"a", "p", "p", "o", "i", "n", "t", "m", "e", "n", "t">>, <<"d", "e", "a", "d", "l", "i", "n", "e">> >>

FinanceRe == << <<"p", "a", "y", "m", "e", "n", "t">>, <<"i", "n", "v", "o", "i", "c", "e">>, <<"b", "i", "l", "l">>, <<"b", "u", "d", "g", "e", "t">>, <<"c", "o", "s", "t">>, <<"e", "x", "p", "e", "n", "s", "e">> >>

TechnicalRe == << <<"b", "u", "g">>, <<"f", "i", "x">>, <<"e", "r", "r", "o", "r">>, <<"i", "n", "s", "t", "a", "l", "l">>, <<"r", "e", "p", "a", "i", "r">>, <<"m", "a", "i", "n", "t", "a", "i", "n">> >>

SafetyRe == << <<"s", "a", "f", "e", "t", "y">>, <<"h", "a", "z", "a", "r", "d">>, <<"i", "n", "s", "p", "e", "c", "t", "i", "o", "n">>, <<"c", "o", "m", "p", "l", "i", "a", "n", "c", "e">>, <<"p", "p", "e">> >>

HighRe == << <<"u", "r", "g", "e", "n", "t">>, <<"a", "s", "a", "p">>, <<"i", "m", "m", "e", "d", "i", "a", "t", "e", "l", "y">>, <<"t", "o", "d", "a", "y">>, <<"c", "r", "i", "t", "i", "c", "a", "l">>, <<"e", "m", "e", "r", "g", "e", "n", "c", "y">> >>

MediumRe == << <<"s", "o", "o", "n">>, <<"i", "m", "p", "o", "r", "t", "a", "n", "t">>, <<"w", "e", "e", "k">> >>

\* the variant with the rule order changed
Category_FinanceAfterSafety(content) ==
  IF RegexTest(SchedulingRe, content) THEN "scheduling"
  ELSE IF RegexTest(SafetyRe, content) THEN "safety"
  ELSE IF RegexTest(TechnicalRe, content) THEN "technical"
  ELSE IF RegexTest(FinanceRe, content) THEN "finance"
  ELSE "general"

\* let category = 'general'; if (...) category = ...; else if ...
Category(content) ==
  IF RegexTest(SchedulingRe, content) THEN "scheduling"
  ELSE IF RegexTest(FinanceRe, content) THEN "finance"
  ELSE IF RegexTest(TechnicalRe, content) THEN "technical"
  ELSE IF RegexTest(SafetyRe, content) THEN "safety"
  ELSE "general"

\* the variant that tests the medium keywords first
Priority_MediumFirst(content) ==
  IF RegexTest(MediumRe, content) THEN "medium"
  ELSE IF RegexTest(HighRe, content) THEN "high"
  ELSE "low"

\* let priority = 'low'; if (...) priority = 'high'; else if (...) priority = 'medium'
Priority(content) ==
  IF RegexTest(HighRe, content) THEN "high"
  ELSE IF RegexTest(MediumRe, content) THEN "medium"
  ELSE "low"

actionsMap ==
  [scheduling |-> <<"Block calendar", "Send invite", "Prepare agenda", "Set reminder">>,
   finance |-> <<"Check budget", "Get approval", "Generate invoice", "Update records">>,
   technical |-> <<"Diagnose issue", "Check resources", "Assign technician", "Document fix">>,
   safety |-> <<"Conduct inspection", "File report", "Notify supervisor", "Update checklist">>,
   general |-> <<"Review task", "Set reminder">>]

\* /\d{4}-\d{2}-\d{2}/ matches s at position i
DateAt(s, i) ==
  /\ i + 9 <= Len(s)
  /\ \A k \in {0, 1, 2, 3, 5, 6, 8, 9} : IsDigit(s[i + k])
  /\ s[i + 4] = "-"
  /\ s[i + 7] = "-"

\* s.match(/\d{4}-\d{2}-\d{2}/g) || [] : the matches from position i on, left
\* to right, the search resuming after each match
RECURSIVE MatchDates(_, _)
MatchDates(s, i) ==
  IF i + 9 > Len(s) THEN <<>>
  ELSE IF DateAt(s, i) THEN <<SubSeq(s, i, i + 9)>> \o MatchDates(s, i + 10)
  ELSE MatchDates(s, i + 1)

\* the first position >= i of s that holds no \s character
RECURSIVE SkipSpaces(_, _)
SkipSpaces(s, i) == IF i <= Len(s) /\ IsSpace(s[i]) THEN SkipSpaces(s, i + 1) ELSE i

\* the first position >= i of s that holds no [a-z] character
RECURSIVE SkipLower(_, _)
SkipLower(s, i) == IF i <= Len(s) /\ IsLower(s[i]) THEN SkipLower(s, i + 1) ELSE i

PeopleConnectives == << <<"w", "i", "t", "h">>, <<"b", "y">>, <<"a", "s", "s", "i", "g", "n", " ", "t", "o">> >>

\* the end of the match of \s+([A-Z][a-z]+) that starts at position j, or 0
NameEnd(s, j) ==
  LET k == SkipSpaces(s, j)
      m == SkipLower(s, k + 1)
  IN IF k > j /\ k <= Len(s) /\ IsUpper(s[k]) /\ m > k + 1 THEN m - 1 ELSE 0

\* the end of the match of /(?:with|by|assign to)\s+([A-Z][a-z]+)/ that starts
\* at position i, or 0: the alternatives are tried in order
PeopleEnd(s, i) ==
  LET ok == {k \in DOMAIN PeopleConnectives :
               /\ OccursAt(PeopleConnectives[k], s, i)
               /\ NameEnd(s, i + Len(PeopleConnectives[k])) > 0}
  IN IF ok = {} THEN 0
     ELSE LET k == CHOOSE k \in ok : \A l \in ok : k <= l
          IN NameEnd(s, i + Len(PeopleConnectives[k]))

\* s.match(/(?:with|by|assign to)\s+([A-Z][a-z]+)/g) : the matched substrings
RECURSIVE MatchPeople(_, _)
MatchPeople(s, i) ==
  IF i > Len(s) THEN <<>>
  ELSE IF PeopleEnd(s, i) > 0
       THEN <<SubSeq(s, i, PeopleEnd(s, i))>> \o MatchPeople(s, PeopleEnd(s, i) + 1)
  ELSE MatchPeople(s, i + 1)

\* s.split(' ').pop() : what follows the last space of s
RECURSIVE LastToken(_)
LastToken(s) ==
  IF \E i \in 1..Len(s) : s[i] = " "
  THEN LastToken(Tail(s))
  ELSE s

classifyTask_PeopleOnOriginalText(title, description) ==
  LET content == toLowerCase(title \o <<" ">> \o description)
      category == Category(content)
      people == MatchPeople(title \o <<" ">> \o description, 1)
      entities == [dates |-> MatchDates(content, 1),
                   people |-> [i \in 1..Len(people) |-> LastToken(people[i])]]
  IN [category |-> category,
      priority |-> Priority(content),
      suggested_actions |-> actionsMap[category],
      extracted_entities |-> entities]

\* the classifier of the server with history and overrides
classifyTask(title, description) ==
  LET content == toLowerCase(title \o <<" ">> \o description)
      category == Category(content)
      people == MatchPeople(content, 1)
      entities == [dates |-> MatchDates(content, 1),
                   people |-> [i \in 1..Len(people) |-> LastToken(people[i])]]
  IN [category |-> category,
      priority |-> Priority(content),
      suggested_actions |-> actionsMap[category],
      extracted_entities |-> entities]

\* ------------------------------------------------------------------------
\* The classifier of src/index.ts (the server without history and overrides)
\* ------------------------------------------------------------------------

IndexSchedulingRe == << <<"m", "e", "e", "t", "i", "n", "g">>, <<"s", "c", "h", "e", "d", "u", "l", "e">>, <<"c", "a", "l", "l">>, <<"a", "p", "p", "o", "i", "n", "t", "m", "e", "n", "t">>, <<"d", "e", "a", "d", "l", "i", "n", "e">> >>

IndexFinanceRe == << <<"p", "a", "y", "m", "e", "n", "t">>, <<"i", "n", "v", "o", "i", "c", "e">>, <<"b", "i", "l", "l">>, <<"b", "u", "d", "g", "e", "t">>, <<"c", "o", "s", "t">>, <<"e", "x", "p", "e", "n", "s", "e">> >>

IndexTechnicalRe == << <<"b", "u", "g">>, <<"f", "i", "x">>, <<"e", "r", "r", "o", "r">>, <<"i", "n", "s", "t", "a", "l", "l">>, <<"r", "e", "p", "a", "i", "r">>, <<"m", "a", "i", "n", "t", "a", "i", "n">> >>

IndexSafetyRe == << <<"s", "a", "f", "e", "t", "y">>, <<"h", "a", "z", "a", "r", "d">>, <<"i", "n", "s", "p", "e", "c", "t", "i", "o", "n">>, <<"c", "o", "m", "p", "l", "i", "a", "n", "c", "e">>, <<"p", "p", "e">> >>

IndexHighRe == << <<"u", "r", "g", "e", "n", "t">>, <<"a", "s", "a", "p">>, <<"i", "m", "m", "e", "d", "i", "a", "t", "e", "l", "y">>, <<"t", "o", "d", "a", "y">>, <<"c", "r", "i", "t", "i", "c", "a", "l">>, <<"e", "m", "e", "r", "g", "e", "n", "c", "y">> >>

IndexMediumRe == << <<"s", "o", "o", "n">>, <<"i", "m", "p", "o", "r", "t", "a", "n", "t">>, <<"w", "e", "e", "k">> >>

IndexCategory(content) ==
  IF RegexTest(IndexSchedulingRe, content) THEN "scheduling"
  ELSE IF RegexTest(IndexFinanceRe, content) THEN "finance"
  ELSE IF RegexTest(IndexTechnicalRe, content) THEN "technical"
  ELSE IF RegexTest(IndexSafetyRe, content) THEN "safety"
  ELSE "general"

IndexPriority(content) ==
  IF RegexTest(IndexHighRe, content) THEN "high"
  ELSE IF RegexTest(IndexMediumRe, content) THEN "medium"
  ELSE "low"

IndexActionsMap ==
  [scheduling |-> <<"Block calendar", "Send invite", "Prepare agenda">>,
   finance |-> <<"Check budget", "Get approval", "Update records">>,
   technical |-> <<"Diagnose issue", "Assign technician", "Document fix">>,
   safety |-> <<"Conduct inspection", "File report", "Notify supervisor">>,
   general |-> <<"Review task", "Set reminder">>]

IndexClassifyTask(title, description) ==
  LET content == toLowerCase(title \o <<" ">> \o description)
      category == IndexCategory(content)
      people == MatchPeople(content, 1)
      entities == [dates |-> MatchDates(content, 1),
                   people |-> [i \in 1..Len(people) |-> LastToken(people[i])]]
  IN [category |-> category,
      priority |-> IndexPriority(content),
      suggested_actions |-> IndexActionsMap[category],
      extracted_entities |-> entities]

\* ------------------------------------------------------------------------
\* The copy of the classifier in test/classification.test.ts
\* ------------------------------------------------------------------------

TestSchedulingRe == << <<"m", "e", "e", "t", "i", "n", "g">>, <<"s", "c", "h", "e", "d", "u", "l", "e">>, <<"c", "a", "l", "l">>, <<"a", "p", "p", "o", "i", "n", "t", "m", "e", "n", "t">>, <<"d", "e", "a", "d", "l", "i", "n", "e">> >>

TestFinanceRe == << <<"p", "a", "y", "m", "e", "n", "t">>, <<"i", "n", "v", "o", "i", "c", "e">>, <<"b", "i", "l", "l">>, <<"b", "u", "d", "g", "e", "t">>, <<"c", "o", "s", "t">>, <<"e", "x", "p", "e", "n", "s", "e">> >>

TestTechnicalRe == << <<"b", "u", "g">>, <<"f", "i", "x">>, <<"e", "r", "r", "o", "r">>, <<"i", "n", "s", "t", "a", "l", "l">>, <<"r", "e", "p", "a", "i", "r">>, <<"m", "a", "i", "n", "t", "a", "i", "n">> >>

TestSafetyRe == << <<"s", "a", "f", "e", "t", "y">>, <<"h", "a", "z", "a", "r", "d">>, <<"i", "n", "s", "p", "e", "c", "t", "i", "o", "n">>, <<"c", "o", "m", "p", "l", "i", "a", "n", "c", "e">>, <<"p", "p", "e">> >>

TestHighRe == << <<"u", "r", "g", "e", "n", "t">>, <<"a", "s", "a", "p">>, <<"i", "m", "m", "e", "d", "i", "a", "t", "e", "l", "y">>, <<"t", "o", "d", "a", "y">>, <<"c", "r", "i", "t", "i", "c", "a", "l">>, <<"e", "m", "e", "r", "g", "e", "n", "c", "y">> >>

TestMediumRe == << <<"s", "o", "o", "n">>, <<"i", "m", "p", "o", "r", "t", "a", "n", "t">>, <<"w", "e", "e", "k">> >>

\* `let category = 'general'`, then the if / else-if chain
TestCategory(content) ==
  IF RegexTest(TestSchedulingRe, content) THEN "scheduling"
  ELSE IF RegexTest(TestFinanceRe, content) THEN "finance"
  ELSE IF RegexTest(TestTechnicalRe, content) THEN "technical"
  ELSE IF RegexTest(TestSafetyRe, content) THEN "safety"
  ELSE "general"

TestPriority_NoMedium(content) ==
  IF RegexTest(TestHighRe, content) THEN "high" ELSE "low"

TestPriority(content) ==
  IF RegexTest(TestHighRe, content) THEN "high"
  ELSE IF RegexTest(TestMediumRe, content) THEN "medium"
  ELSE "low"

TestClassifyTask(title, description) ==
  LET content == toLowerCase(title \o <<" ">> \o description)
  IN [category |-> TestCategory(content), priority |-> TestPriority(content)]

\* ------------------------------------------------------------------------
\* State
\* ------------------------------------------------------------------------

VARIABLES
  tasks,         \* the rows of table `tasks`
  task_history,  \* the rows of table `task_history`, in insertion order
  nextId,        \* the id the store gives to the next task
  clock,         \* the store's clock: created_at and changed_at
  req,           \* the requests in flight, one per slot
  started,       \* the number of requests started
  preview,       \* the request and response of POST /api/tasks/classify
  overlapped     \* observation: two requests on one task have been in flight together

vars == <<tasks, task_history, nextId, clock, req, started, preview, overlapped>>

\* the number of requests the servers handle at the same time
NumSlots == 2

\* the response of a request that has not responded yet
noResult == [pending |-> TRUE]

\* ------------------------------------------------------------------------
\* POST /api/tasks/classify over a set of texts
\* ------------------------------------------------------------------------

Titles ==
  { <<"A", "p", "p", "r", "o", "v", "e", " ", "t", "h", "e", " ", "b", "u", "d", "g", "e", "t">>,
    <<"U", "r", "g", "e", "n", "t", " ", "b", "u", "d", "g", "e", "t", " ", "r", "e", "v", "i", "e", "w">>,
    <<"F", "e", "e", "d", " ", "t", "h", "e", " ", "o", "f", "f", "i", "c", "e", " ", "p", "l", "a", "n", "t", "s">>,
    <<"G", "a", "s", " ", "l", "e", "a", "k", " ", "r", "e", "p", "o", "r", "t", "e", "d">>,
    <<"M", "o", "n", "t", "h", "l", "y", " ", "b", "u", "d", "g", "e", "t", " ", "r", "e", "v", "i", "e", "w">>,
    <<"R", "e", "c", "a", "l", "l", " ", "M", "E", "E", "T", "I", "N", "G">>,
    <<"F", "i", "x", " ", "P", "P", "E">>,
    <<"s", "o">>,
    <<"S", "a", "f", "e", "t", "y", " ", "W", "e", "e", "k">>,
    <<"L", "u", "n", "c", "h", " ", "w", "i", "t", "h", " ", "A", "l", "i", "c", "e", " ", "2", "0", "2", "4", "-", "0", "3", "-", "1", "5">>,
    <<"S", "t", "o", "p", "p", "e", "d">>,
    <<>> }

Descriptions ==
  { <<"a", "l", "s", "o", " ", "c", "h", "e", "c", "k", " ", "f", "i", "r", "e", " ", "h", "a", "z", "a", "r", "d">>,
    <<"T", "h", "e", "y", " ", "l", "o", "o", "k", " ", "a", " ", "b", "i", "t", " ", "d", "r", "y">>,
    <<"U", "r", "g", "e", "n", "t", " ", "i", "n", "s", "p", "e", "c", "t", "i", "o", "n", " ", "n", "e", "e", "d", "e", "d", " ", "i", "n", " ", "S", "e", "c", "t", "o", "r", " ", "7">>,
    <<"A", "n", "a", "l", "y", "z", "e", " ", "t", "h", "e", " ", "a", "l", "l", "o", "c", "a", "t", "i", "o", "n", " ", "f", "o", "r", " ", "Q", "3">>,
    <<"o", "n">>,
    <<"D", "u", "e", " ", "2", "0", "2", "4", "-", "0", "3", "-", "1", "5", " ", "a", "n", "d", " ", "r", "e", "s", "c", "h", "e", "d", "u", "l", "e", " ", "t", "o", " ", "2", "0", "2", "4", "-", "0", "4", "-", "0", "1">>,
    <<"a", "s", "s", "i", "g", "n", " ", "t", "o", " ", "B", "o", "b", " ", "a", "s", "a", "p">>,
    <<"p", "a", "y", " ", "t", "h", "e", " ", "B", "I", "L", "L", " ", "s", "o", "o", "n">>,
    <<"i", "m", "p", "o", "r", "t", "a", "n", "t", " ", "e", "r", "r", "o", "r", " ", "t", "o", "d", "a", "y">>,
    <<"c", "o", "m", "p", "l", "i", "a", "n", "c", "e">>,
    <<"2", "0", "2", "4", "-", "0", "3", "-", "1", "5", " ", "2", "0", "2", "4", "-", "0", "3", "-", "1", "5">>,
    <<>> }

\* a slot with no request
idle == [handler |-> "none", pc |-> "idle"]

InitClassify ==
  /\ tasks = {}
  /\ task_history = <<>>
  /\ nextId = 1
  /\ clock = 1
  /\ req = [r \in 1..NumSlots |-> idle]
  /\ started = 0
  /\ overlapped = FALSE
  /\ preview \in [title : Titles, description : Descriptions, result : {noResult},
                indexResult : {noResult}, testResult : {noResult}]

\* app.post('/api/tasks/classify')
PreviewClassify ==
  /\ preview.result = noResult
  /\ preview' = [preview EXCEPT !.result = classifyTask(preview.title, preview.description)]
  /\ UNCHANGED <<tasks, task_history, nextId, clock, req, started, overlapped>>

\* classifyTask of src/index.ts applied to the same title and description
IndexClassify ==
  /\ preview.indexResult = noResult
  /\ preview' = [preview EXCEPT
                   !.indexResult = IndexClassifyTask(preview.title, preview.description)]
  /\ UNCHANGED <<tasks, task_history, nextId, clock, req, started, overlapped>>

\* classifyTask of the test file applied to the same title and description
TestClassify ==
  /\ preview.testResult = noResult
  /\ preview' = [preview EXCEPT
                   !.testResult = TestClassifyTask(preview.title, preview.description)]
  /\ UNCHANGED <<tasks, task_history, nextId, clock, req, started, overlapped>>

NextClassify == PreviewClassify \/ IndexClassify \/ TestClassify

SpecClassify == InitClassify /\ [][NextClassify]_vars

\* ------------------------------------------------------------------------
\* Properties of the classifier
\* ------------------------------------------------------------------------

\* the lower-cased text the previewed request is classified on
PreviewContent == toLowerCase(preview.title \o <<" ">> \o preview.description)

\* some keyword of the set is a substring of the text
SomeOccurs(keywords, s) ==
  \E w \in keywords : \E i \in 1..(Len(s) - Len(w) + 1) : SubSeq(s, i, i + Len(w) - 1) = w

\* the category rules of the specification, in priority order
CategoryRules ==
  << [category |-> "scheduling",
      keywords |-> { <<"m", "e", "e", "t", "i", "n", "g">>, <<"s", "c", "h", "e", "d", "u", "l", "e">>, <<"c", "a", "l", "l">>, <<"a", "p", "p", "o", "i", "n", "t", "m", "e", "n", "t">>, <<"d", "e", "a", "d", "l", "i", "n", "e">> }],
     [category |-> "finance",
      keywords |-> { <<"p", "a", "y", "m", "e", "n", "t">>, <<"i", "n", "v", "o", "i", "c", "e">>, <<"b", "i", "l", "l">>, <<"b", "u", "d", "g", "e", "t">>, <<"c", "o", "s", "t">>, <<"e", "x", "p", "e", "n", "s", "e">> }],
     [category |-> "technical",
      keywords |-> { <<"b", "u", "g">>, <<"f", "i", "x">>, <<"e", "r", "r", "o", "r">>, <<"i", "n", "s", "t", "a", "l", "l">>, <<"r", "e", "p", "a", "i", "r">>, <<"m", "a", "i", "n", "t", "a", "i", "n">> }],
     [category |-> "safety",
      keywords |-> { <<"s", "a", "f", "e", "t", "y">>, <<"h", "a", "z", "a", "r", "d">>, <<"i", "n", "s", "p", "e", "c", "t", "i", "o", "n">>, <<"c", "o", "m", "p", "l", "i", "a", "n", "c", "e">>, <<"p", "p", "e">> }] >>

\* the rules that match the text
MatchingRules(s) == {k \in DOMAIN CategoryRules : SomeOccurs(CategoryRules[k].keywords, s)}

\* the category of the first matching rule, general when none matches
FirstRuleCategory(s) ==
  IF MatchingRules(s) = {} THEN "general"
  ELSE CategoryRules[CHOOSE k \in MatchingRules(s) : \A l \in MatchingRules(s) : k <= l].category

\* C1: classify returns the category of the first rule, in the order
\* scheduling, finance, technical, safety, one of whose keywords is a substring
\* of the lower-cased title + ' ' + description, and general when no rule
\* matches; a text with a finance and a safety keyword and no scheduling
\* keyword is finance.
C1_FirstMatchingRuleWins ==
  preview.result # noResult =>
    /\ preview.result.category = FirstRuleCategory(PreviewContent)
    /\ (MatchingRules(PreviewContent) = {2, 4} => preview.result.category = "finance")

\* a classified text with a finance keyword, a safety keyword and no
\* scheduling keyword
C1_Witness ==
  /\ preview.result # noResult
  /\ MatchingRules(PreviewContent) = {2, 4}
  /\ preview.result.category = "finance"

HighKeywords == { <<"u", "r", "g", "e", "n", "t">>, <<"a", "s", "a", "p">>, <<"i", "m", "m", "e", "d", "i", "a", "t", "e", "l", "y">>, <<"t", "o", "d", "a", "y">>, <<"c", "r", "i", "t", "i", "c", "a", "l">>, <<"e", "m", "e", "r", "g", "e", "n", "c", "y">> }

MediumKeywords == { <<"s", "o", "o", "n">>, <<"i", "m", "p", "o", "r", "t", "a", "n", "t">>, <<"w", "e", "e", "k">> }

\* the priority keywords that occur in the text
PriorityKeywordsIn(s) == {w \in HighKeywords \cup MediumKeywords : SomeOccurs({w}, s)}

\* the priority as a function of the priority keywords that occur
PriorityOfKeywords(found) ==
  IF found \cap HighKeywords # {} THEN "high"
  ELSE IF found \cap MediumKeywords # {} THEN "medium"
  ELSE "low"

\* C2: the priority is high if a high keyword occurs in the lower-cased
\* content, else medium if soon, important or week occurs, else low; it is a
\* function of the priority keywords that occur, whatever the category; a text
\* matching no keyword set yields general and low.
C2_PriorityByKeywords ==
  preview.result # noResult =>
    /\ preview.result.priority = PriorityOfKeywords(PriorityKeywordsIn(PreviewContent))
    /\ (MatchingRules(PreviewContent) = {} /\ PriorityKeywordsIn(PreviewContent) = {}
          => preview.result.category = "general" /\ preview.result.priority = "low")

\* a classified text in which a high and a medium keyword both occur and whose
\* category is not general
C2_Witness ==
  /\ preview.result # noResult
  /\ PriorityKeywordsIn(PreviewContent) \cap HighKeywords # {}
  /\ PriorityKeywordsIn(PreviewContent) \cap MediumKeywords # {}
  /\ preview.result.category # "general"
  /\ preview.result.priority = "high"

\* the three classifications of the previewed text have all been computed
AllClassified ==
  /\ preview.result # noResult
  /\ preview.indexResult # noResult
  /\ preview.testResult # noResult

\* C17: for every title and description, the people list that classify
\* extracts is empty, in both servers: the pattern needs an upper-case
\* letter and the text it is applied to is lower-cased; this includes texts
\* holding "with Alice" or "assign to Bob".
C17_PeopleAlwaysEmpty ==
  /\ preview.result # noResult => preview.result.extracted_entities.people = <<>>
  /\ preview.indexResult # noResult => preview.indexResult.extracted_entities.people = <<>>

C17_Witness ==
  /\ preview.title = <<"L", "u", "n", "c", "h", " ", "w", "i", "t", "h", " ", "A", "l", "i", "c", "e", " ", "2", "0", "2", "4", "-", "0", "3", "-", "1", "5">>
  /\ preview.description = <<"a", "s", "s", "i", "g", "n", " ", "t", "o", " ", "B", "o", "b", " ", "a", "s", "a", "p">>
  /\ preview.result # noResult
  /\ preview.indexResult # noResult
  /\ preview.result.extracted_entities.people = <<>>
  /\ preview.result.extracted_entities.dates # <<>>

\* the labels the specification gives for category scheduling
SchedulingLabels == <<"Block calendar", "Send invite", "Prepare agenda", "Set reminder">>

\* C18: the suggested actions classify returns are the entry of one fixed
\* table for the returned category: between 2 and 4 labels, the same labels
\* for the same category, and for scheduling exactly Block calendar, Send
\* invite, Prepare agenda, Set reminder.
C18_ActionsFromFixedTable ==
  /\ \A res \in {preview.result, preview.indexResult} :
       res # noResult =>
         /\ Len(res.suggested_actions) \in 2..4
         /\ res.category = "scheduling" => res.suggested_actions = SchedulingLabels
  /\ (/\ preview.result # noResult
      /\ preview.indexResult # noResult
      /\ preview.result.category = preview.indexResult.category)
       => preview.result.suggested_actions = preview.indexResult.suggested_actions

\* C20: the classifier of src/index.ts, the classifier of the server with
\* history and the copy in the test file give every title and description
\* the same category and the same priority.
C20_ThreeCopiesAgree ==
  /\ (preview.result # noResult /\ preview.indexResult # noResult) =>
       /\ preview.result.category = preview.indexResult.category
       /\ preview.result.priority = preview.indexResult.priority
  /\ (preview.result # noResult /\ preview.testResult # noResult) =>
       /\ preview.result.category = preview.testResult.category
       /\ preview.result.priority = preview.testResult.priority
  /\ (preview.indexResult # noResult /\ preview.testResult # noResult) =>
       /\ preview.indexResult.category = preview.testResult.category
       /\ preview.indexResult.priority = preview.testResult.priority

C20_Witness ==
  /\ AllClassified
  /\ preview.testResult = [category |-> "safety", priority |-> "medium"]
  /\ preview.result.category = "safety"
  /\ preview.indexResult.priority = "medium"

\* ------------------------------------------------------------------------
\* The store (Supabase tables `tasks` and `task_history`)
\* ------------------------------------------------------------------------

\* `undefined` where an object is expected (data[0] of an empty result)
undefinedRow == [isUndefined |-> TRUE]

\* a value as the store keeps it: a key that is undefined is left out of the
\* JSON body of the request and its column is NULL
Column(v) == IF v = undefined THEN null ELSE v

\* a JSON object column (old_value, new_value): undefined is stored as NULL
JsonColumn(v) == IF v = undefinedRow THEN nullRow ELSE v

\* JSON.stringify of a record: the keys whose value is undefined are left out
Json(rec) ==
  [k \in {k \in DOMAIN rec : ~(k \in {"assigned_to", "due_date"} /\ rec[k] = undefined)} |-> rec[k]]

\* the row that supabase.from('tasks').insert([record]).select() persists and
\* returns: the record with the generated id and created_at
InsertedTask(record, id, now) ==
  [id |-> id,
   created_at |-> now,
   title |-> record.title,
   description |-> record.description,
   assigned_to |-> Column(record.assigned_to),
   due_date |-> Column(record.due_date),
   category |-> record.category,
   priority |-> record.priority,
   suggested_actions |-> record.suggested_actions,
   extracted_entities |-> record.extracted_entities,
   status |-> record.status]

\* .eq('id', id) on table tasks
TasksWithId(id) == {t \in tasks : t.id = id}

\* .select('*').eq('id', id).single() : the row, or null when there is none
SelectSingle(id) == IF TasksWithId(id) = {} THEN nullRow ELSE CHOOSE t \in TasksWithId(id) : TRUE

\* a row after .update(patch): the columns of the patch replaced
Patched(row, patch) == [k \in DOMAIN row |-> IF k \in DOMAIN patch THEN patch[k] ELSE row[k]]

\* body.key of a request body
Get(body, key) == IF key \in DOMAIN body THEN body[key] ELSE undefined

\* data[0] of a result array
First(data) == IF Len(data) > 0 THEN data[1] ELSE undefinedRow

\* the row that supabase.from('task_history').insert([entry]) persists
HistoryRow(entry, now) ==
  [task_id |-> entry.task_id,
   action |-> entry.action,
   old_value |-> JsonColumn(IF "old_value" \in DOMAIN entry THEN entry.old_value ELSE undefinedRow),
   new_value |-> JsonColumn(entry.new_value),
   changed_at |-> now]

\* text ILIKE pattern, both lower-cased: % stands for any run of characters
\* and _ for any one character, from position i of the pattern and j of the
\* text on
RECURSIVE LikeFrom(_, _, _, _)
LikeFrom(p, i, s, j) ==
  IF i > Len(p) THEN j > Len(s)
  ELSE IF p[i] = "%" THEN \E k \in j..(Len(s) + 1) : LikeFrom(p, i + 1, s, k)
  ELSE /\ j <= Len(s)
       /\ p[i] = "_" \/ p[i] = s[j]
       /\ LikeFrom(p, i + 1, s, j + 1)

\* .ilike(column, pattern)
ilike(text, pattern) == LikeFrom(toLowerCase(pattern), 1, toLowerCase(text), 1)

\* .order(column, { ascending: false }) : the rows with the largest value
\* of the column first
RECURSIVE OrderDesc(_, _)
OrderDesc(rows, column) ==
  IF rows = {} THEN <<>>
  ELSE LET top == CHOOSE t \in rows : \A u \in rows : u[column] <= t[column]
       IN <<top>> \o OrderDesc(rows \ {top}, column)

\* .range(from, to) : the rows at the 0-based positions from .. to
range_NoMinusOne(rows, from, to) ==
  SubSeq(rows, from + 1, IF to + 2 < Len(rows) THEN to + 2 ELSE Len(rows))

range(rows, from, to) ==
  SubSeq(rows, from + 1, IF to + 1 < Len(rows) THEN to + 1 ELSE Len(rows))

\* const { x = d } = req.query : the default when the parameter is absent
Default(v, d) == IF v = undefined THEN d ELSE v

\* Number(v) of the decimal numerals that the requests use
Number(v) == ("0" :> 0 @@ "1" :> 1 @@ "2" :> 2 @@ "10" :> 10)[v]

\* ------------------------------------------------------------------------
\* Requests
\* ------------------------------------------------------------------------

\* the number of requests of a run
MaxRequests == 2

Slots == 1..NumSlots

\* the bodies of the POST /api/tasks requests
CreateBodies ==
  { [title |-> <<"U", "r", "g", "e", "n", "t", " ", "b", "i", "l", "l">>, description |-> <<>>,
     assigned_to |-> undefined, due_date |-> undefined,
     override_category |-> undefined, override_priority |-> undefined],
    [title |-> <<"F", "i", "x", " ", "P", "P", "E">>, description |-> <<"b", "y", " ", "A", "l", " ", "2", "0", "2", "4", "-", "0", "3", "-", "1", "5">>,
     assigned_to |-> "Bob", due_date |-> "2024-03-15",
     override_category |-> "plumbing", override_priority |-> ""],
    [title |-> <<"F", "e", "e", "d", " ", "p", "l", "a", "n", "t", "s">>, description |-> <<"t", "h", "i", "s", " ", "w", "e", "e", "k">>,
     assigned_to |-> undefined, due_date |-> undefined,
     override_category |-> "safety", override_priority |-> "high"] }

\* the bodies of the PATCH /api/tasks/:id requests
PatchBodies ==
  { [status |-> "completed"],
    [status |-> ""],
    [priority |-> "high"] }

\* the query strings of the GET /api/tasks requests; search is empty when
\* absent
ListQueries ==
  { [status |-> undefined, category |-> undefined, priority |-> undefined,
     search |-> <<>>, limit |-> "1", offset |-> undefined],
    [status |-> undefined, category |-> undefined, priority |-> undefined,
     search |-> <<>>, limit |-> undefined, offset |-> "1"],
    [status |-> "pending", category |-> "finance", priority |-> "high",
     search |-> <<"U", "R", "G", "E", "N", "T">>, limit |-> "2", offset |-> "0"],
    [status |-> undefined, category |-> undefined, priority |-> undefined,
     search |-> <<"f", "i", "x", "_", "p", "p", "e">>, limit |-> undefined, offset |-> undefined] }

\* the bodies of the POST /api/tasks/classify requests
PreviewBodies == {body \in CreateBodies : body.due_date # undefined}

\* the ids a request can name: those the store has given out and the next one
Ids == 1..nextId

\* the slot holds no request in flight: none, or one that has responded
Free(r) == req[r].pc \in {"idle", "done"}

\* a new request is handled in the first free slot
FreeSlot(r) == Free(r) /\ \A q \in Slots : q < r => ~Free(q)

\* the slots once the responses sent so far have reached their clients: a
\* slot is in "done" in the state that its request responds in, and only there
Delivered == [q \in Slots |-> IF req[q].pc = "done" THEN idle ELSE req[q]]

\* Observation, not program state: the task that the request in flight in
\* slot q works on, and the slots as a request on task id arrives, the requests
\* in flight on that task being marked as overlapped (alone = FALSE).  A slot
\* also keeps what its request found on arrival, the stored task (before) and
\* the number of history entries of the task (entries), and whether the task
\* was in the store when the request wrote (found).  A GET /api/tasks/:id in
\* flight writes nothing and is not counted.
TaskOf(q) == IF req[q].handler = "POST /api/tasks" THEN req[q].data[1].id ELSE req[q].id

Overlapping(id) ==
  {q \in Slots : ~Free(q) /\ req[q].handler # "GET /api/tasks/:id" /\ TaskOf(q) = id}

Arrival(id) ==
  [q \in Slots |-> IF q \in Overlapping(id) THEN [req[q] EXCEPT !.alone = FALSE] ELSE Delivered[q]]

\* the entries of task_history of a task, in insertion order
HistoryOf(id) == SelectSeq(task_history, LAMBDA h : h.task_id = id)

\* ------------------------------------------------------------------------
\* The server with history and overrides
\* ------------------------------------------------------------------------

\* the variant that looks the actions up for the category it persists
TaskData_ActionsOfPersistedCategory(body, smartData) ==
  LET category == Or(body.override_category, smartData.category)
  IN [title |-> body.title,
      description |-> body.description,
      assigned_to |-> body.assigned_to,
      due_date |-> body.due_date,
      category |-> category,
      priority |-> Or(body.override_priority, smartData.priority),
      suggested_actions |-> IF category \in DOMAIN actionsMap THEN actionsMap[category]
                            ELSE smartData.suggested_actions,
      extracted_entities |-> smartData.extracted_entities,
      status |-> "pending"]

\* const taskData = { ... } of POST /api/tasks
TaskData(body, smartData) ==
  [title |-> body.title,
   description |-> body.description,
   assigned_to |-> body.assigned_to,
   due_date |-> body.due_date,
   category |-> Or(body.override_category, smartData.category),
   priority |-> Or(body.override_priority, smartData.priority),
   suggested_actions |-> smartData.suggested_actions,
   extracted_entities |-> smartData.extracted_entities,
   status |-> "pending"]

\* const smartData = classifyTask(title, description), for each request body
SmartData == [body \in CreateBodies |-> classifyTask(body.title, body.description)]

\* the variant that records the history entry before it inserts the task
CreateRejected_HistoryFirst(r, body) ==
  /\ FreeSlot(r)
  /\ started < MaxRequests
  /\ started' = started + 1
  /\ task_history' = Append(task_history,
       HistoryRow([task_id |-> nextId, action |-> "created",
                   new_value |-> Json(TaskData(body, SmartData[body]))], clock))
  /\ clock' = clock + 1
  /\ req' = [Delivered EXCEPT ![r] = [handler |-> "POST /api/tasks", pc |-> "done", body |-> body,
                                      error |-> TRUE, res |-> [status |-> 400]]]
  /\ UNCHANGED <<tasks, nextId, preview, overlapped>>

\* POST /api/tasks, the store rejects the insert: if (error) throw error, and
\* the catch responds 400
CreateRejected(r, body) ==
  /\ FreeSlot(r)
  /\ started < MaxRequests
  /\ started' = started + 1
  /\ req' = [Delivered EXCEPT ![r] = [handler |-> "POST /api/tasks", pc |-> "done", body |-> body,
                                      error |-> TRUE, res |-> [status |-> 400]]]
  /\ UNCHANGED <<tasks, task_history, nextId, clock, preview, overlapped>>

\* POST /api/tasks up to the insert into tasks, the store accepts the insert
CreateInsert(r, body) ==
  /\ FreeSlot(r)
  /\ started < MaxRequests
  /\ started' = started + 1
  /\ LET taskData == TaskData(body, SmartData[body])
         data == <<InsertedTask(taskData, nextId, clock)>>
     IN /\ tasks' = tasks \cup {data[1]}
        /\ req' = [Arrival(nextId) EXCEPT ![r] =
                     [handler |-> "POST /api/tasks", pc |-> "history", body |-> body,
                      taskData |-> taskData, data |-> data, alone |-> Overlapping(nextId) = {}]]
  /\ nextId' = nextId + 1
  /\ clock' = clock + 1
  /\ overlapped' = (overlapped \/ Overlapping(nextId) # {})
  /\ UNCHANGED <<task_history, preview>>

\* the entry that POST /api/tasks inserts into task_history
CreatedEntry(data, taskData) ==
  [task_id |-> data[1].id, action |-> "created", new_value |-> Json(taskData)]

\* The tables outlive the server.  When the server starts they are empty, or
\* they hold what an earlier run has left: here one task that a POST /api/tasks
\* of this server has created, with its history entry.
EarlierBody == CHOOSE body \in CreateBodies : body.override_category = undefined

EarlierTask == InsertedTask(TaskData(EarlierBody, SmartData[EarlierBody]), 1, 1)

EarlierEntry ==
  HistoryRow(CreatedEntry(<<EarlierTask>>, TaskData(EarlierBody, SmartData[EarlierBody])), 2)

Init ==
  /\ \/ tasks = {} /\ task_history = <<>> /\ nextId = 1 /\ clock = 1
     \/ tasks = {EarlierTask} /\ task_history = <<EarlierEntry>> /\ nextId = 2 /\ clock = 3
  /\ req = [r \in Slots |-> idle]
  /\ started = 0
  /\ overlapped = FALSE
  /\ preview = [title |-> <<>>, description |-> <<>>, result |-> noResult,
               indexResult |-> noResult, testResult |-> noResult]

\* POST /api/tasks from the insert into task_history to the response
CreateHistory(r) ==
  /\ req[r].handler = "POST /api/tasks"
  /\ req[r].pc = "history"
  /\ task_history' = Append(task_history, HistoryRow(CreatedEntry(req[r].data, req[r].taskData), clock))
  /\ clock' = clock + 1
  /\ req' = [Delivered EXCEPT ![r] = [handler |-> "POST /api/tasks", pc |-> "done", body |-> req[r].body,
                                      error |-> FALSE, alone |-> req[r].alone,
                                      res |-> [status |-> 201, body |-> req[r].data[1]]]]
  /\ UNCHANGED <<tasks, nextId, started, preview, overlapped>>

\* PATCH /api/tasks/:id, the read of oldTask
UpdateRead(r, id, body) ==
  /\ FreeSlot(r)
  /\ started < MaxRequests
  /\ started' = started + 1
  /\ req' = [Arrival(id) EXCEPT ![r] =
               [handler |-> "PATCH /api/tasks/:id", pc |-> "update", id |-> id, body |-> body,
                oldTask |-> SelectSingle(id),
                before |-> SelectSingle(id), entries |-> Len(HistoryOf(id)),
                alone |-> Overlapping(id) = {}]]
  /\ overlapped' = (overlapped \/ Overlapping(id) # {})
  /\ UNCHANGED <<tasks, task_history, nextId, clock, preview>>

\* PATCH /api/tasks/:id, the store rejects the update: if (error) return 400
UpdateRejected(r) ==
  /\ req[r].handler = "PATCH /api/tasks/:id"
  /\ req[r].pc = "update"
  /\ req' = [Delivered EXCEPT ![r] =
               [handler |-> "PATCH /api/tasks/:id", pc |-> "done", id |-> req[r].id, body |-> req[r].body,
                before |-> req[r].before, entries |-> req[r].entries, alone |-> req[r].alone,
                found |-> TasksWithId(req[r].id) # {}, res |-> [status |-> 400]]]
  /\ UNCHANGED <<tasks, task_history, nextId, clock, started, preview, overlapped>>

\* PATCH /api/tasks/:id, .update(req.body).eq('id', id).select() : the rows
\* with the id are patched and returned, none when no row has the id
UpdateWrite(r) ==
  /\ req[r].handler = "PATCH /api/tasks/:id"
  /\ req[r].pc = "update"
  /\ LET old == TasksWithId(req[r].id)
         data == IF old = {} THEN <<>> ELSE <<Patched(SelectSingle(req[r].id), req[r].body)>>
     IN /\ tasks' = (tasks \ old) \cup Range(data)
        /\ req' = [Delivered EXCEPT ![r] =
                     [handler |-> "PATCH /api/tasks/:id", pc |-> "history", id |-> req[r].id,
                      body |-> req[r].body, oldTask |-> req[r].oldTask, data |-> data,
                      before |-> req[r].before, entries |-> req[r].entries, alone |-> req[r].alone,
                      found |-> old # {}]]
  /\ UNCHANGED <<task_history, nextId, clock, started, preview, overlapped>>

\* action: req.body.status ? 'status_changed' : 'updated'
HistoryAction(body) == IF Falsy(Get(body, "status")) THEN "updated" ELSE "status_changed"

\* the variant that chains the entry to the newest entry of the task
UpdatedEntry_Chained(id, body, oldTask, data) ==
  [task_id |-> id, action |-> HistoryAction(body),
   old_value |-> IF HistoryOf(id) = <<>> THEN oldTask ELSE HistoryOf(id)[Len(HistoryOf(id))].new_value,
   new_value |-> First(data)]

\* the entry that PATCH /api/tasks/:id inserts into task_history
UpdatedEntry(id, body, oldTask, data) ==
  [task_id |-> id, action |-> HistoryAction(body), old_value |-> oldTask, new_value |-> First(data)]

\* PATCH /api/tasks/:id from the insert into task_history to the response
UpdateHistory(r) ==
  /\ req[r].handler = "PATCH /api/tasks/:id"
  /\ req[r].pc = "history"
  /\ task_history' = Append(task_history,
       HistoryRow(UpdatedEntry(req[r].id, req[r].body, req[r].oldTask, req[r].data), clock))
  /\ clock' = clock + 1
  /\ req' = [Delivered EXCEPT ![r] =
               [handler |-> "PATCH /api/tasks/:id", pc |-> "done", id |-> req[r].id, body |-> req[r].body,
                before |-> req[r].before, entries |-> req[r].entries, alone |-> req[r].alone,
                found |-> req[r].found,
                res |-> [status |-> 200, body |-> First(req[r].data)]]]
  /\ UNCHANGED <<tasks, nextId, started, preview, overlapped>>

\* the variant whose store deletes the history of the task with the task
DeleteTask_WithHistory(r, id) ==
  /\ FreeSlot(r)
  /\ started < MaxRequests
  /\ started' = started + 1
  /\ tasks' = tasks \ TasksWithId(id)
  /\ task_history' = SelectSeq(task_history, LAMBDA h : h.task_id # id)
  /\ req' = [Arrival(id) EXCEPT ![r] = [handler |-> "DELETE /api/tasks/:id", pc |-> "done", id |-> id,
                                        res |-> [status |-> 204]]]
  /\ overlapped' = (overlapped \/ Overlapping(id) # {})
  /\ UNCHANGED <<nextId, clock, preview>>

\* DELETE /api/tasks/:id
DeleteTask(r, id) ==
  /\ FreeSlot(r)
  /\ started < MaxRequests
  /\ started' = started + 1
  /\ tasks' = tasks \ TasksWithId(id)
  /\ req' = [Arrival(id) EXCEPT ![r] = [handler |-> "DELETE /api/tasks/:id", pc |-> "done", id |-> id,
                                        res |-> [status |-> 204]]]
  /\ overlapped' = (overlapped \/ Overlapping(id) # {})
  /\ UNCHANGED <<task_history, nextId, clock, preview>>

\* the rows that GET /api/tasks selects: .eq() for each of status, category
\* and priority that is truthy, .ilike('title', `%${search}%`) when search is
ListFilter(query) ==
  {t \in tasks :
     /\ Falsy(query.status) \/ t.status = query.status
     /\ Falsy(query.category) \/ t.category = query.category
     /\ Falsy(query.priority) \/ t.priority = query.priority
     /\ query.search = <<>> \/ ilike(t.title, <<"%">> \o query.search \o <<"%">>) }

\* data of GET /api/tasks:
\* .range(Number(offset), Number(offset) + Number(limit) - 1).order('created_at', desc)
ListData(query) ==
  LET limit == Number(Default(query.limit, "10"))
      offset == Number(Default(query.offset, "0"))
  IN range(OrderDesc(ListFilter(query), "created_at"), offset, offset + limit - 1)

\* GET /api/tasks
ListTasks(r, query) ==
  /\ FreeSlot(r)
  /\ started < MaxRequests
  /\ started' = started + 1
  /\ \E error \in BOOLEAN :
       req' = [Delivered EXCEPT ![r] =
                 [handler |-> "GET /api/tasks", pc |-> "done", server |-> "part_000", query |-> query,
                  res |-> IF error THEN [status |-> 400]
                          ELSE [status |-> 200,
                                body |-> [data |-> ListData(query),
                                          total |-> Cardinality(ListFilter(query))]]]]
  /\ UNCHANGED <<tasks, task_history, nextId, clock, preview, overlapped>>

\* GET /api/tasks/:id, the read of the task
GetTask(r, id) ==
  /\ FreeSlot(r)
  /\ started < MaxRequests
  /\ started' = started + 1
  /\ req' = [Delivered EXCEPT ![r] =
               [handler |-> "GET /api/tasks/:id", pc |-> "history", server |-> "part_000", id |-> id,
                task |-> SelectSingle(id)]]
  /\ UNCHANGED <<tasks, task_history, nextId, clock, preview, overlapped>>

\* { ...task, history } : the fields of the task, none when it is null, and
\* the history
WithHistory(task, history) == [task |-> task, history |-> history]

\* GET /api/tasks/:id from the read of the history to the response:
\* .eq('task_id', id).order('changed_at', { ascending: false })
GetHistory(r) ==
  /\ req[r].handler = "GET /api/tasks/:id"
  /\ req[r].pc = "history"
  /\ req[r].server = "part_000"
  /\ LET history == OrderDesc(Range(HistoryOf(req[r].id)), "changed_at")
     IN req' = [Delivered EXCEPT ![r] =
                  [handler |-> "GET /api/tasks/:id", pc |-> "done", server |-> "part_000",
                   id |-> req[r].id, res |-> [status |-> 200, body |-> WithHistory(req[r].task, history)]]]
  /\ UNCHANGED <<tasks, task_history, nextId, clock, started, preview, overlapped>>

\* POST /api/tasks/classify : res.json(classifyTask(title, description))
PreviewTask(r, body) ==
  /\ FreeSlot(r)
  /\ started < MaxRequests
  /\ started' = started + 1
  /\ req' = [Delivered EXCEPT ![r] =
               [handler |-> "POST /api/tasks/classify", pc |-> "done", body |-> body,
                res |-> [status |-> 200, body |-> SmartData[body]]]]
  /\ UNCHANGED <<tasks, task_history, nextId, clock, preview, overlapped>>

\* ------------------------------------------------------------------------
\* The server of src/index.ts
\* ------------------------------------------------------------------------

\* { title, description, assigned_to, due_date, ...smartData, status: 'pending' }
IndexTaskData(body, smartData) ==
  [title |-> body.title,
   description |-> body.description,
   assigned_to |-> body.assigned_to,
   due_date |-> body.due_date,
   category |-> smartData.category,
   priority |-> smartData.priority,
   suggested_actions |-> smartData.suggested_actions,
   extracted_entities |-> smartData.extracted_entities,
   status |-> "pending"]

\* const smartData = classifyTask(title, description), for each request body
IndexSmartData == [body \in CreateBodies |-> IndexClassifyTask(body.title, body.description)]

\* POST /api/tasks
IndexCreateTask(r, body) ==
  /\ FreeSlot(r)
  /\ started < MaxRequests
  /\ started' = started + 1
  /\ \E error \in BOOLEAN :
       IF error
       THEN /\ req' = [Delivered EXCEPT ![r] = [handler |-> "POST /api/tasks", pc |-> "done",
                                                body |-> body, error |-> TRUE, res |-> [status |-> 400]]]
            /\ UNCHANGED <<tasks, nextId, clock, overlapped>>
       ELSE LET data == <<InsertedTask(IndexTaskData(body, IndexSmartData[body]), nextId, clock)>>
            IN /\ tasks' = tasks \cup {data[1]}
               /\ nextId' = nextId + 1
               /\ clock' = clock + 1
               /\ overlapped' = (overlapped \/ Overlapping(nextId) # {})
               /\ req' = [Arrival(nextId) EXCEPT ![r] =
                            [handler |-> "POST /api/tasks", pc |-> "done", body |-> body,
                             error |-> FALSE, alone |-> Overlapping(nextId) = {},
                             res |-> [status |-> 201, body |-> data[1]]]]
  /\ UNCHANGED <<task_history, preview>>

\* PATCH /api/tasks/:id
IndexUpdateTask(r, id, body) ==
  /\ FreeSlot(r)
  /\ started < MaxRequests
  /\ started' = started + 1
  /\ \E error \in BOOLEAN :
       LET old == TasksWithId(id)
           data == IF old = {} THEN <<>> ELSE <<Patched(SelectSingle(id), body)>>
           done == [handler |-> "PATCH /api/tasks/:id", pc |-> "done", id |-> id, body |-> body,
                    before |-> SelectSingle(id), entries |-> Len(HistoryOf(id)),
                    alone |-> Overlapping(id) = {}, found |-> old # {}]
       IN IF error
          THEN /\ req' = [Arrival(id) EXCEPT ![r] = done @@ [res |-> [status |-> 400]]]
               /\ UNCHANGED tasks
          ELSE /\ tasks' = (tasks \ old) \cup Range(data)
               /\ req' = [Arrival(id) EXCEPT ![r] = done @@ [res |-> [status |-> 200, body |-> First(data)]]]
  /\ overlapped' = (overlapped \/ Overlapping(id) # {})
  /\ UNCHANGED <<task_history, nextId, clock, preview>>

\* DELETE /api/tasks/:id
IndexDeleteTask(r, id) ==
  /\ FreeSlot(r)
  /\ started < MaxRequests
  /\ started' = started + 1
  /\ tasks' = tasks \ TasksWithId(id)
  /\ req' = [Arrival(id) EXCEPT ![r] = [handler |-> "DELETE /api/tasks/:id", pc |-> "done", id |-> id,
                                        res |-> [status |-> 204]]]
  /\ overlapped' = (overlapped \/ Overlapping(id) # {})
  /\ UNCHANGED <<task_history, nextId, clock, preview>>

\* the rows that GET /api/tasks selects: no search parameter is read
IndexListFilter(query) ==
  {t \in tasks :
     /\ Falsy(query.status) \/ t.status = query.status
     /\ Falsy(query.category) \/ t.category = query.category
     /\ Falsy(query.priority) \/ t.priority = query.priority }

IndexListData(query) ==
  LET limit == Number(Default(query.limit, "10"))
      offset == Number(Default(query.offset, "0"))
  IN range(OrderDesc(IndexListFilter(query), "created_at"), offset, offset + limit - 1)

\* GET /api/tasks
IndexListTasks(r, query) ==
  /\ FreeSlot(r)
  /\ started < MaxRequests
  /\ started' = started + 1
  /\ \E error \in BOOLEAN :
       req' = [Delivered EXCEPT ![r] =
                 [handler |-> "GET /api/tasks", pc |-> "done", server |-> "index", query |-> query,
                  res |-> IF error THEN [status |-> 400]
                          ELSE [status |-> 200,
                                body |-> [data |-> IndexListData(query),
                                          total |-> Cardinality(IndexListFilter(query))]]]]
  /\ UNCHANGED <<tasks, task_history, nextId, clock, preview, overlapped>>

\* GET /api/tasks/:id, the read of the task
IndexGetTask(r, id) ==
  /\ FreeSlot(r)
  /\ started < MaxRequests
  /\ started' = started + 1
  /\ req' = [Delivered EXCEPT ![r] =
               [handler |-> "GET /api/tasks/:id", pc |-> "history", server |-> "index", id |-> id,
                task |-> SelectSingle(id)]]
  /\ UNCHANGED <<tasks, task_history, nextId, clock, preview, overlapped>>

\* the orders that a select without .order() can return the rows in
Orders(rows) ==
  {s \in [1..Cardinality(rows) -> rows] : \A i, j \in DOMAIN s : i # j => s[i] # s[j]}

\* GET /api/tasks/:id from the read of the history to the response:
\* .eq('task_id', id) with no order
IndexGetHistory(r) ==
  /\ req[r].handler = "GET /api/tasks/:id"
  /\ req[r].pc = "history"
  /\ req[r].server = "index"
  /\ \E history \in Orders(Range(HistoryOf(req[r].id))) :
       req' = [Delivered EXCEPT ![r] =
                 [handler |-> "GET /api/tasks/:id", pc |-> "done", server |-> "index",
                  id |-> req[r].id, res |-> [status |-> 200, body |-> WithHistory(req[r].task, history)]]]
  /\ UNCHANGED <<tasks, task_history, nextId, clock, started, preview, overlapped>>

Next ==
  \/ \E r \in Slots, body \in CreateBodies : CreateRejected(r, body)
  \/ \E r \in Slots, body \in CreateBodies : CreateInsert(r, body)
  \/ \E r \in Slots : CreateHistory(r)
  \/ \E r \in Slots, id \in Ids, body \in PatchBodies : UpdateRead(r, id, body)
  \/ \E r \in Slots : UpdateRejected(r)
  \/ \E r \in Slots : UpdateWrite(r)
  \/ \E r \in Slots : UpdateHistory(r)
  \/ \E r \in Slots, id \in Ids : DeleteTask(r, id)
  \/ \E r \in Slots, body \in CreateBodies : IndexCreateTask(r, body)
  \/ \E r \in Slots, id \in Ids, body \in PatchBodies : IndexUpdateTask(r, id, body)
  \/ \E r \in Slots, id \in Ids : IndexDeleteTask(r, id)
  \/ \E r \in Slots, query \in ListQueries : ListTasks(r, query)
  \/ \E r \in Slots, id \in Ids : GetTask(r, id)
  \/ \E r \in Slots : GetHistory(r)
  \/ \E r \in Slots, body \in PreviewBodies : PreviewTask(r, body)
  \/ \E r \in Slots, query \in ListQueries : IndexListTasks(r, query)
  \/ \E r \in Slots, id \in Ids : IndexGetTask(r, id)
  \/ \E r \in Slots : IndexGetHistory(r)

Spec == Init /\ [][Next]_vars

\* ------------------------------------------------------------------------
\* Properties of the task manager
\* ------------------------------------------------------------------------

Categories == {"scheduling", "finance", "technical", "safety", "general"}

Priorities == {"low", "medium", "high"}

Last(s) == s[Len(s)]

\* the request of slot r has just responded
Done(r, handler) == req[r].pc = "done" /\ req[r].handler = handler

\* the request of slot r is a create that has just responded with the
\* persisted task
Created(r) == Done(r, "POST /api/tasks") /\ req[r].res.status = 201

\* C3: every task in the store has its category among scheduling, finance,
\* technical, safety, general and its priority among low, medium, high, after
\* any sequence of create (with or without overrides), update and delete.
C3_EnumeratedValues ==
  \A t \in tasks : t.category \in Categories /\ t.priority \in Priorities

\* C4: when a create completes successfully, the history of the created task
\* holds exactly one entry, with action created and no old_value; no task ever
\* has a second created entry.
C4_OneCreatedEntry ==
  /\ \A r \in Slots : Created(r) =>
       LET h == HistoryOf(req[r].res.body.id)
       IN Len(h) = 1 /\ h[1].action = "created" /\ h[1].old_value = nullRow
  /\ \A id \in Ids :
       Cardinality({i \in DOMAIN task_history :
                      task_history[i].task_id = id /\ task_history[i].action = "created"}) <= 1

\* C5: the created entry that create writes has new_value equal to the
\* persisted task that create returns, id and created_at included.
C5_CreatedEntryHoldsPersistedTask ==
  \A r \in Slots : Created(r) =>
    \A i \in DOMAIN task_history :
      (task_history[i].task_id = req[r].res.body.id /\ task_history[i].action = "created")
        => task_history[i].new_value = req[r].res.body

\* C6: an update of an existing task that no other request on the task
\* overlaps appends exactly one history entry of the task, whose old_value is
\* the stored task before the call and whose new_value is the stored task after
\* the patch, the task that update returns.
C6_UpdateAppendsOneEntry ==
  \A r \in Slots :
    (Done(r, "PATCH /api/tasks/:id") /\ req[r].res.status = 200
       /\ req[r].before # nullRow /\ req[r].alone) =>
      LET h == HistoryOf(req[r].id)
      IN /\ Len(h) = req[r].entries + 1
         /\ Last(h).old_value = req[r].before
         /\ Last(h).new_value = req[r].res.body
         /\ req[r].res.body = SelectSingle(req[r].id)

\* C7: the history entry that a successful update (one that found its task
\* and responded with it) appends has action status_changed if and only if the
\* patch has a status field, whatever its value, and action updated otherwise.
C7_StatusChangedIffStatusField ==
  [][\A r \in Slots :
       (req'[r].pc = "done" /\ req'[r].handler = "PATCH /api/tasks/:id"
          /\ req'[r].res.status = 200 /\ req'[r].found
          /\ Len(task_history') = Len(task_history) + 1) =>
         Last(task_history').action =
           (IF "status" \in DOMAIN req'[r].body THEN "status_changed" ELSE "updated")]_vars

\* C8: an update whose id matches no task in the store when it writes (never
\* created, or deleted, also between the pre-read and the write) signals a
\* failure, leaves the tasks store unchanged and appends no history entry.
C8_UnknownIdFails ==
  [][\A r \in Slots :
       (req'[r].pc = "done" /\ req'[r].handler = "PATCH /api/tasks/:id" /\ ~req'[r].found) =>
         /\ req'[r].res.status = 400
         /\ tasks' = tasks
         /\ task_history' = task_history]_vars

\* C9: when the store rejects the insert of create, create signals a failure
\* and neither a task nor a history entry is added.
C9_RejectedCreateChangesNothing ==
  [][\A r \in Slots :
       (req'[r].pc = "done" /\ req'[r].handler = "POST /api/tasks" /\ req'[r].error) =>
         /\ req'[r].res.status = 400
         /\ tasks' = tasks
         /\ task_history' = task_history]_vars

\* a create that the store rejected has responded while the store holds a
\* task and a history entry
C9_Witness ==
  \E r \in Slots :
    /\ Done(r, "POST /api/tasks")
    /\ req[r].error
    /\ req[r].res.status = 400
    /\ tasks # {}
    /\ task_history # <<>>

\* the override is supplied
Supplied(v) == ~Falsy(v)

\* C10: the persisted task of a create has category override_category when
\* supplied and else the classifier's, priority override_priority when supplied
\* and else the classifier's, status pending, and the suggested_actions and
\* extracted_entities of classify(title, description), overrides or not.
C10_OverridesAndClassifierOutput ==
  \A r \in Slots : Created(r) =>
    LET body == req[r].body
        task == req[r].res.body
        smartData == SmartData[body]
    IN /\ task.category = (IF Supplied(body.override_category) THEN body.override_category
                           ELSE smartData.category)
       /\ task.priority = (IF Supplied(body.override_priority) THEN body.override_priority
                           ELSE smartData.priority)
       /\ task.status = "pending"
       /\ task.suggested_actions = smartData.suggested_actions
       /\ task.extracted_entities = smartData.extracted_entities

\* ------------------------------------------------------------------------
\* Properties of the stored tasks, the list and the history
\* ------------------------------------------------------------------------

BodyOf(t) == CHOOSE body \in CreateBodies : body.title = t.title /\ body.description = t.description

\* the category that the specification's rules give the text of each body
RuleCategory ==
  [body \in CreateBodies |->
     FirstRuleCategory(toLowerCase(body.title \o <<" ">> \o body.description))]

Listed(r) == Done(r, "GET /api/tasks") /\ req[r].res.status = 200

\* the rows that the list of slot r selects before it pages them
Unpaged(r) ==
  IF req[r].server = "index" THEN IndexListFilter(req[r].query) ELSE ListFilter(req[r].query)

\* the page that the server of slot r returns for a query
PageOf(r, query) == IF req[r].server = "index" THEN IndexListData(query) ELSE ListData(query)

\* the rows of a set ordered by creation time, newest first
NewestFirst(rows) ==
  CHOOSE s \in [1..Cardinality(rows) -> rows] :
    /\ \A i, j \in DOMAIN s : i # j => s[i] # s[j]
    /\ \A i, j \in DOMAIN s : i < j => s[i].created_at > s[j].created_at

\* the elements of s at the 0-based positions offset .. offset + limit - 1
Slice(s, offset, limit) ==
  LET n == IF Len(s) - offset < limit THEN Len(s) - offset ELSE limit
  IN [i \in 1..(IF n < 0 THEN 0 ELSE n) |-> s[offset + i]]

\* C12: over a fixed store and fixed filters, the page of a list is the slice
\* [offset, offset + limit) of the unpaged result ordered newest first, limit
\* being 10 and offset 0 when absent; list(limit L, offset 0) and
\* list(limit L, offset L) are disjoint and their concatenation is the first
\* 2L rows of the unpaged result.
C12_PageIsSlice ==
  \A r \in Slots : Listed(r) =>
    LET query == req[r].query
        L == IF query.limit = undefined THEN "10" ELSE query.limit
        offset == IF query.offset = undefined THEN 0 ELSE Number(query.offset)
        all == NewestFirst(Unpaged(r))
        first == PageOf(r, [query EXCEPT !.limit = L, !.offset = "0"])
        second == PageOf(r, [query EXCEPT !.limit = L, !.offset = L])
    IN /\ req[r].res.body.data = Slice(all, offset, Number(L))
       /\ Range(first) \cap Range(second) = {}
       /\ first \o second = Slice(all, 0, 2 * Number(L))

\* a list with limit 1 has returned the newer of two tasks
C12_Witness ==
  \E r \in Slots :
    /\ Listed(r)
    /\ req[r].query.limit = "1"
    /\ Cardinality(Unpaged(r)) = 2
    /\ Len(req[r].res.body.data) = 1
    /\ \A t \in tasks : t.created_at <= req[r].res.body.data[1].created_at
    /\ Len(PageOf(r, [req[r].query EXCEPT !.offset = "1"])) = 1

\* the task satisfies every filter that the query supplies: status, category
\* and priority are equal, search occurs in the title whatever the case
Satisfies(t, query) ==
  /\ Supplied(query.status) => t.status = query.status
  /\ Supplied(query.category) => t.category = query.category
  /\ Supplied(query.priority) => t.priority = query.priority
  /\ query.search # <<>> => SomeOccurs({toLowerCase(query.search)}, toLowerCase(t.title))

\* C13: a list returns only tasks that satisfy all the supplied filters,
\* every task that satisfies them is on some page, and total is the number
\* of tasks that satisfy them, whatever limit and offset are.
C13_ListReturnsSatisfying ==
  \A r \in Slots : Listed(r) =>
    LET query == req[r].query
        page == req[r].res.body.data
        satisfying == {t \in tasks : Satisfies(t, query)}
    IN /\ \A i \in DOMAIN page : Satisfies(page[i], query)
       /\ req[r].res.body.total = Cardinality(satisfying)
       /\ \A t \in satisfying :
            \E offset \in {"0", "1", "2"} :
              t \in Range(PageOf(r, [query EXCEPT !.offset = offset]))

\* C14: task_history is append-only across every step of create, update,
\* delete, list, get with history and preview classify: no step removes or
\* changes an entry; a delete removes the task and adds, changes and removes
\* no entry.
C14_HistoryAppendOnly ==
  [][/\ Len(task_history') >= Len(task_history)
     /\ SubSeq(task_history', 1, Len(task_history)) = task_history
     /\ \A r \in Slots :
          (req'[r].pc = "done" /\ req'[r].handler = "DELETE /api/tasks/:id") =>
            /\ task_history' = task_history
            /\ tasks' = {t \in tasks : t.id # req'[r].id}]_vars

\* a delete has removed a task whose history entries are still stored
C14_Witness ==
  \E r \in Slots :
    /\ Done(r, "DELETE /api/tasks/:id")
    /\ TasksWithId(req[r].id) = {}
    /\ \E i \in DOMAIN task_history :
         /\ task_history[i].task_id = req[r].id
         /\ task_history[i].action = "created"

\* the request of slot r is a get with history that has just responded
Got(r) == Done(r, "GET /api/tasks/:id")

\* the sequence holds the entries newest first
IsNewestFirst(history) ==
  \A i, j \in DOMAIN history : i < j => history[i].changed_at > history[j].changed_at

\* C15: for an id with no task in the store at the call, get with history
\* returns absent task fields and an empty history, also when the task was
\* created, perhaps updated, and then deleted; for an existing task it
\* returns the fields of the task and all its history entries, newest first.
C15_GetWithHistory ==
  \A r \in Slots : Got(r) =>
    LET task == req[r].res.body.task
        history == req[r].res.body.history
    IN IF task = nullRow
       THEN history = <<>>
       ELSE /\ task.id = req[r].id
            /\ Range(history) = Range(HistoryOf(req[r].id))
            /\ Len(history) = Len(HistoryOf(req[r].id))
            /\ IsNewestFirst(history)

\* the update of slot r has just responded with its task, and other entries
\* of the task were appended between its pre-read and its own entry
Overtaken(r) ==
  /\ Done(r, "PATCH /api/tasks/:id")
  /\ req[r].res.status = 200
  /\ req[r].found
  /\ Len(HistoryOf(req[r].id)) >= req[r].entries + 2

\* C16: two concurrent updates of one task, each a pre-read, a store update
\* and a history append, can interleave so that the old_value of a history
\* entry differs from the new_value of the preceding entry of the task: the
\* old_value that an update appends is the task as its pre-read found it, also
\* when another request has appended an entry of the task since that read.
C16_OldValueIsPreRead ==
  \A r \in Slots : Overtaken(r) =>
    Last(HistoryOf(req[r].id)).old_value = req[r].before

\* two updates of one task have overlapped, both entries hold the task that
\* both pre-reads found, and the later old_value is not the earlier new_value
C16_Witness ==
  \E r \in Slots :
    /\ Overtaken(r)
    /\ ~req[r].alone
    /\ req[r].before # nullRow
    /\ LET h == HistoryOf(req[r].id)
       IN /\ Len(h) = req[r].entries + 2
          /\ h[Len(h) - 1].action \in {"updated", "status_changed"}
          /\ h[Len(h) - 1].old_value = h[Len(h)].old_value
          /\ h[Len(h)].old_value # h[Len(h) - 1].new_value

\* C19: in an execution in which no two requests on the same task overlap,
\* the history of each task is an unbroken chain that starts with the created
\* entry, the old_value of each later entry being the new_value of the entry
\* before it, and while the task exists the new_value of the newest entry is
\* the stored task.
C19_UnbrokenChain ==
  ~overlapped =>
    \A id \in 1..(nextId - 1) :
      LET h == HistoryOf(id)
      IN /\ h # <<>> => h[1].action = "created"
         /\ \A i \in 2..Len(h) : h[i].old_value = h[i - 1].new_value
         /\ (TasksWithId(id) # {} /\ Overlapping(id) = {}) =>
              (h # <<>> /\ Last(h).new_value = SelectSingle(id))
====
